---- MODULE Spec2Model ----
(***************************************************************************)
(* Order-book liquidity analytics of polymarket-radar                      *)
(* (src/02_lakehouse/bronze_to_silver_gold.py).                            *)
(*                                                                         *)
(* Numbers.  The program computes on floats; the model computes exactly.   *)
(* Prices, sizes and cash amounts are integers counted in grid units, and  *)
(* every quotient the program forms (a partial fill, an average price, a   *)
(* midpoint, a score) is an exact fraction <<n, d>>, d > 0, in lowest      *)
(* terms.  Rounding of the floats is outside the model.                    *)
(*                                                                         *)
(* Two grids are used, named by the variable grid:                         *)
(*   "cent"  price unit 0.01 $, size unit 1 share, cash unit 0.01 $.       *)
(*           The configured budgets (10, 50, 200 $) fit this grid.  The    *)
(*           thresholds 1e-9 $ and 1e-12 shares lie below one unit, so on  *)
(*           this grid "x <= 1e-9" is "x <= 0".                            *)
(*   "pico"  price unit 1 $, size unit 1e-12 share, cash unit 1e-12 $.     *)
(*           1e-9 $ is 1000 cash units and 1e-12 shares is 1 size unit, so *)
(*           amounts on both sides of the two thresholds exist.            *)
(*                                                                         *)
(* An absent value (Python None) is the empty tuple.                       *)
(*                                                                         *)
(* Specifications:                                                         *)
(*   SpecFill    one call of buy_avg_fill_price, pico grid, step by step   *)
(*   SpecParse   one call of parse_levels on a raw list                    *)
(*   SpecRecord  main on one well-formed record, cent grid                 *)
(*   SpecBook    main on one record whose price texts may be "nan"         *)
(*   Spec        main on a batch of well-formed and malformed records      *)
(* In SpecRecord and Spec the raw prices and sizes are finite numbers.  In *)
(* SpecBook a price may be NaN: an operation on NaN yields NaN and every   *)
(* comparison with NaN is false.  Sizes are finite under all three, and    *)
(* the arithmetic on infinity is outside the model.                        *)
(***************************************************************************)
EXTENDS Integers, Sequences, FiniteSets, TLC

VARIABLES
    grid,          \* the grid the numbers of this run are counted in
    \* ---- one call of buy_avg_fill_price, statement by statement
    fill_asks,     \* argument asks
    fill_budget,   \* argument budget
    fill_pc,       \* "idle" | "call" | "loop" | "ret" | "done"
    asks_sorted,   \* local asks_sorted
    fill_k,        \* index in asks_sorted of the level the for loop is at
    remaining,     \* local remaining  (cash units)
    total_cost,    \* local total_cost (cash units)
    total_shares,  \* local total_shares (fraction of size units)
    fill_ret,      \* the returned value
    \* ---- one call of parse_levels
    side_levels,   \* argument side_levels, as the JSON gave it
    parse_pc,      \* "idle" | "call" | "done" | "raised"
    parse_out,     \* the returned list
    \* ---- main
    orderbooks,    \* the list load_orderbooks returned
    ob_i,          \* how many of its records the for loop has taken
    pc,            \* "idle" | "loop" | "done" | "aborted" (an exception left main)
    bids,          \* local bids of the last pass
    asks,          \* local asks of the last pass
    gold_rows,     \* local gold_rows
    silver_rows    \* the rows written to the silver CSV, header aside

fill_vars == <<fill_asks, fill_budget, fill_pc, asks_sorted, fill_k,
               remaining, total_cost, total_shares, fill_ret>>

parse_vars == <<side_levels, parse_pc, parse_out>>

main_vars == <<orderbooks, ob_i, pc, bids, asks, gold_rows, silver_rows>>

vars == <<grid, fill_vars, parse_vars, main_vars>>

None == <<>>

----------------------------------------------------------------------------
(* Bounds of the model.                                                    *)

\* most levels of the ask side handed to buy_avg_fill_price
MaxAsks == 2
\* highest price (in $, pico grid) of a level handed to buy_avg_fill_price
MaxPrice == 2
\* most entries of the raw list handed to parse_levels
MaxRawLevels == 2
\* highest number a raw price or size field denotes
MaxRawNumber == 2
\* most levels of one side of a record
MaxLevels == 2
\* most records of a batch
MaxBatch == 2
\* most levels of one side of a record whose prices may be NaN
MaxBookLevels == 3

----------------------------------------------------------------------------
(* Exact arithmetic standing for the float operators.                      *)

Abs(n) == IF n < 0 THEN 0 - n ELSE n

RECURSIVE GCD(_, _)
GCD(a, b) == IF b = 0 THEN a ELSE GCD(b, a % b)

\* the floats that are no finite number, as values outside every grid
NaN == 0 - 2 ^ 30
Infinity == 2 ^ 30
IsFinite(f) == f # NaN /\ f # Infinity

\* NaN among the fractions
NaNRat == <<0, 0>>

\* the fraction n/d (d # 0) in lowest terms with a positive denominator
Rat(n, d) ==
    LET g == GCD(Abs(n), Abs(d))
        s == IF d < 0 THEN 0 - 1 ELSE 1
    IN  <<(s * n) \div g, (s * d) \div g>>

Num(n) == IF n = NaN THEN NaNRat ELSE <<n, 1>>

\* an operation on NaN yields NaN; a comparison with NaN is false
RatAdd(x, y) ==
    IF x = NaNRat \/ y = NaNRat THEN NaNRat
    ELSE Rat(x[1] * y[2] + y[1] * x[2], x[2] * y[2])
RatSub(x, y) ==
    IF x = NaNRat \/ y = NaNRat THEN NaNRat
    ELSE Rat(x[1] * y[2] - y[1] * x[2], x[2] * y[2])
RatMul(x, y) ==
    IF x = NaNRat \/ y = NaNRat THEN NaNRat
    ELSE Rat(x[1] * y[1], x[2] * y[2])
RatDiv(x, y) ==
    IF x = NaNRat \/ y = NaNRat THEN NaNRat
    ELSE Rat(x[1] * y[2], x[2] * y[1])
RatLE(x, y) == x # NaNRat /\ y # NaNRat /\ x[1] * y[2] <= y[1] * x[2]

\* a < b on two floats
Lt(a, b) == a # NaN /\ b # NaN /\ a < b

----------------------------------------------------------------------------
(* Level and the sorts.                                                    *)

Level(p, s) == [price |-> p, size |-> s]

\* xs[::-1]
Reverse(xs) == [i \in 1 .. Len(xs) |-> xs[Len(xs) + 1 - i]]

\* list.sort of CPython on a list of fewer than 64 elements, keys l.price: one
\* natural run from the front, then a binary insertion of each later element.
\* Its only test on two keys is "<".  Where "<" is a total order on the keys
\* the result is the stable ascending sort; a NaN key, which is below and
\* above nothing, leaves the result depending on where the NaN stands.

\* count_run: the last index of the run that starts the list and holds
\* 1 .. k; a descending run is strictly descending
RECURSIVE count_run(_, _, _)
count_run(xs, k, descending) ==
    IF k = Len(xs) THEN k
    ELSE IF Lt(xs[k + 1].price, xs[k].price) = descending
         THEN count_run(xs, k + 1, descending)
         ELSE k

\* the bisection of binarysort: where pivot goes among done[l .. r - 1]
RECURSIVE BinaryPos(_, _, _, _)
BinaryPos(done, pivot, l, r) ==
    IF l >= r THEN l
    ELSE LET p == l + ((r - l) \div 2) IN
         IF Lt(pivot.price, done[p].price)
         THEN BinaryPos(done, pivot, l, p)
         ELSE BinaryPos(done, pivot, p + 1, r)

\* binarysort: done is sorted, the elements of rest are inserted in turn
RECURSIVE binarysort(_, _)
binarysort(done, rest) ==
    IF rest = <<>> THEN done
    ELSE LET pivot == rest[1]
             l == BinaryPos(done, pivot, 1, Len(done) + 1)
         IN  binarysort(SubSeq(done, 1, l - 1) \o <<pivot>>
                            \o SubSeq(done, l, Len(done)),
                        SubSeq(rest, 2, Len(rest)))

ListSort(xs) ==
    IF Len(xs) < 2 THEN xs
    ELSE LET descending == Lt(xs[2].price, xs[1].price)
             n == count_run(xs, 2, descending)
             run == SubSeq(xs, 1, n)
         IN  binarysort(IF descending THEN Reverse(run) ELSE run,
                        SubSeq(xs, n + 1, Len(xs)))

\* sorted(xs, key=lambda l: l.price)
SortAsc(xs) == ListSort(xs)

----------------------------------------------------------------------------
(* buy_avg_fill_price.                                                     *)

\* 1e-9 $ in cash units: remaining <= 1e-9  <=>  remaining <= EPS_REMAINING
EPS_REMAINING == IF grid = "pico" THEN 1000 ELSE 0

\* 1e-12 shares in size units
EPS_SHARES == IF grid = "pico" THEN 1 ELSE 0

\* the locals before the for loop
WalkStart(budget) ==
    [remaining |-> budget, total_cost |-> 0, total_shares |-> Num(0),
     stop |-> FALSE]

\* faulty variant: only a negative price is passed over
Skipped_NegativeOnly(lvl) == lvl.price # NaN /\ lvl.price < 0

\* the level is passed over by "continue" (nan <= 0 is false)
Skipped(lvl) == lvl.price # NaN /\ lvl.price <= 0

\* faulty variant: a level consumed whole is not taken off the remaining budget
WalkLevel_KeepsBudget(w, lvl) ==
    IF Skipped(lvl) THEN w
    ELSE LET lvl_cost_full == lvl.price * lvl.size IN
         IF lvl.price # NaN /\ w.remaining >= lvl_cost_full
         THEN [remaining |-> w.remaining,
               total_cost |-> w.total_cost + lvl_cost_full,
               total_shares |-> RatAdd(w.total_shares, Num(lvl.size)),
               stop |-> w.remaining <= EPS_REMAINING]
         ELSE [remaining |-> 0,
               total_cost |-> w.total_cost + w.remaining,
               total_shares |-> RatAdd(w.total_shares,
                                       RatDiv(Num(w.remaining), Num(lvl.price))),
               stop |-> TRUE]

\* one pass of the for loop body over lvl; stop is TRUE when it ends in break.
\* With a NaN price lvl_cost_full is NaN, "remaining >= lvl_cost_full" is
\* false and the partial fill buys remaining / nan shares.
WalkLevel(w, lvl) ==
    IF Skipped(lvl) THEN w
    ELSE LET lvl_cost_full == lvl.price * lvl.size IN
         IF lvl.price # NaN /\ w.remaining >= lvl_cost_full
         THEN [remaining |-> w.remaining - lvl_cost_full,
               total_cost |-> w.total_cost + lvl_cost_full,
               total_shares |-> RatAdd(w.total_shares, Num(lvl.size)),
               stop |-> w.remaining - lvl_cost_full <= EPS_REMAINING]
         ELSE [remaining |-> 0,
               total_cost |-> w.total_cost + w.remaining,
               total_shares |-> RatAdd(w.total_shares,
                                       RatDiv(Num(w.remaining), Num(lvl.price))),
               stop |-> TRUE]

\* faulty variant: absent only for exactly zero filled shares
WalkResult_ZeroOnly(w) ==
    IF w.total_shares = Num(0) THEN None
    ELSE RatDiv(Num(w.total_cost), w.total_shares)

\* the return statement
WalkResult(w) ==
    IF RatLE(w.total_shares, Num(EPS_SHARES)) THEN None
    ELSE RatDiv(Num(w.total_cost), w.total_shares)

RECURSIVE Walk(_, _, _)
Walk(sorted, i, w) ==
    IF i > Len(sorted) \/ w.stop THEN w
    ELSE Walk(sorted, i + 1, WalkLevel(w, sorted[i]))

\* the function as a whole, as main calls it
buy_avg_fill_price(as, budget) ==
    IF budget <= 0 \/ as = <<>> THEN None
    ELSE WalkResult(Walk(SortAsc(as), 1, WalkStart(budget)))

\* ---- the same function, one statement group per step

FillPrices == (0 - 1) .. MaxPrice
FillSizes == {0 - 1000, 0, 1, 1000, 2000}
FillBudgets == {0 - 1, 0, 1, 1500, 3000}
FillLevels == {Level(p, s) : p \in FillPrices, s \in FillSizes}

SeqsUpTo(S, n) == UNION {[1 .. m -> S] : m \in 0 .. n}

\* main is not running
IdleMain ==
    /\ orderbooks = <<>>
    /\ ob_i = 0
    /\ pc = "idle"
    /\ bids = <<>>
    /\ asks = <<>>
    /\ gold_rows = <<>>
    /\ silver_rows = <<>>

\* no call of parse_levels is in progress
IdleParse ==
    /\ side_levels = [kind |-> "list", items |-> <<>>]
    /\ parse_pc = "idle"
    /\ parse_out = <<>>

InitFill ==
    /\ IdleParse
    /\ IdleMain
    /\ grid = "pico"
    /\ fill_asks \in SeqsUpTo(FillLevels, MaxAsks)
    /\ fill_budget \in FillBudgets
    /\ fill_pc = "call"
    /\ asks_sorted = <<>>
    /\ fill_k = 0
    /\ remaining = 0
    /\ total_cost = 0
    /\ total_shares = Num(0)
    /\ fill_ret = None

\* lines 96-102: the guard, the sort, the locals
FillCall ==
    /\ fill_pc = "call"
    /\ IF fill_budget <= 0 \/ fill_asks = <<>>
       THEN /\ fill_ret' = None
            /\ fill_pc' = "done"
            /\ UNCHANGED <<asks_sorted, fill_k, remaining, total_cost,
                           total_shares>>
       ELSE /\ asks_sorted' = SortAsc(fill_asks)
            /\ remaining' = WalkStart(fill_budget).remaining
            /\ total_cost' = WalkStart(fill_budget).total_cost
            /\ total_shares' = WalkStart(fill_budget).total_shares
            /\ fill_k' = 1
            /\ fill_pc' = "loop"
            /\ UNCHANGED fill_ret
    /\ UNCHANGED <<grid, fill_asks, fill_budget, parse_vars, main_vars>>

\* lines 104-122: one pass of the for loop
FillLevel ==
    /\ fill_pc = "loop"
    /\ LET w == WalkLevel([remaining |-> remaining, total_cost |-> total_cost,
                           total_shares |-> total_shares, stop |-> FALSE],
                          asks_sorted[fill_k])
       IN  /\ remaining' = w.remaining
           /\ total_cost' = w.total_cost
           /\ total_shares' = w.total_shares
           /\ IF w.stop \/ fill_k = Len(asks_sorted)
              THEN fill_pc' = "ret" /\ UNCHANGED fill_k
              ELSE fill_pc' = "loop" /\ fill_k' = fill_k + 1
    /\ UNCHANGED <<grid, fill_asks, fill_budget, asks_sorted, fill_ret,
                   parse_vars, main_vars>>

\* lines 124-126
FillReturn ==
    /\ fill_pc = "ret"
    /\ fill_ret' = WalkResult([remaining |-> remaining,
                               total_cost |-> total_cost,
                               total_shares |-> total_shares, stop |-> TRUE])
    /\ fill_pc' = "done"
    /\ UNCHANGED <<grid, fill_asks, fill_budget, asks_sorted, fill_k,
                   remaining, total_cost, total_shares, parse_vars, main_vars>>

NextFill == FillCall \/ FillLevel \/ FillReturn

SpecFill == InitFill /\ [][NextFill]_vars

\* the stepwise run and the function agree
FillAgrees ==
    fill_pc = "done" => fill_ret = buy_avg_fill_price(fill_asks, fill_budget)

----------------------------------------------------------------------------
(* parse_levels.                                                           *)
(*                                                                         *)
(* A raw field value, as json.loads gives it, is [t, v]:                   *)
(*   "num"      a finite number v                                          *)
(*   "text"     a string holding the decimal text of v, such as "0.53"     *)
(*   "word"     a string that is no number, such as "abc"                  *)
(*   "null"     None                                                       *)
(*   "nan"      the string "nan" (or the JSON literal NaN)                 *)
(*   "inf"      the string "inf" (or the JSON literal Infinity)            *)
(*   "missing"  the key is not in the mapping                              *)
(* A raw list entry is [kind, price, size]: kind "map" for a mapping,      *)
(* "other" for anything x["price"] is a TypeError on (a number, a string,  *)
(* a list, None).                                                          *)
(* A raw side is [kind, items]: "list" (items are the entries; a string    *)
(* is a list of "other" entries, its characters), "null" (None, or any     *)
(* other falsy value), "number" (a truthy value that cannot be iterated).  *)
(***************************************************************************)

RawValue(t, v) == [t |-> t, v |-> v]

\* float(x[key]): raises (KeyError, TypeError, ValueError) or yields a float
Float(r) ==
    CASE r.t = "num" -> [raises |-> FALSE, val |-> r.v]
      [] r.t = "text" -> [raises |-> FALSE, val |-> r.v]
      [] r.t = "nan" -> [raises |-> FALSE, val |-> NaN]
      [] r.t = "inf" -> [raises |-> FALSE, val |-> Infinity]
      [] OTHER -> [raises |-> TRUE, val |-> 0]

\* the try block of line 57 on entry x: the levels it appends
ParseEntry(x) ==
    IF x.kind # "map" THEN <<>>
    ELSE IF Float(x.price).raises \/ Float(x.size).raises THEN <<>>
    ELSE <<Level(Float(x.price).val, Float(x.size).val)>>

RECURSIVE ParseEntries(_)
ParseEntries(items) ==
    IF items = <<>> THEN <<>>
    ELSE ParseEntry(items[1]) \o ParseEntries(SubSeq(items, 2, Len(items)))

\* parse_levels(side_levels): raises is TRUE when "for x in side_levels or []"
\* is a TypeError, which no handler of the function catches
parse_levels(side) ==
    CASE side.kind = "null" -> [raises |-> FALSE, out |-> <<>>]
      [] side.kind = "number" -> [raises |-> TRUE, out |-> <<>>]
      [] OTHER -> [raises |-> FALSE, out |-> ParseEntries(side.items)]

RawNumbers == 1 .. MaxRawNumber
RawValues ==
    {RawValue(t, v) : t \in {"num", "text"}, v \in RawNumbers}
        \cup {RawValue(t, 0) : t \in {"word", "null", "nan", "inf", "missing"}}
RawEntries ==
    {[kind |-> "map", price |-> p, size |-> z] : p \in RawValues, z \in RawValues}
        \cup {[kind |-> "other", price |-> RawValue("missing", 0),
               size |-> RawValue("missing", 0)]}

\* no call of buy_avg_fill_price is in progress
IdleFill ==
    /\ fill_asks = <<>>
    /\ fill_budget = 0
    /\ fill_pc = "idle"
    /\ asks_sorted = <<>>
    /\ fill_k = 0
    /\ remaining = 0
    /\ total_cost = 0
    /\ total_shares = Num(0)
    /\ fill_ret = None

InitParse ==
    /\ IdleFill
    /\ IdleMain
    /\ grid = "cent"
    /\ side_levels \in
           {[kind |-> "list", items |-> xs] : xs \in SeqsUpTo(RawEntries, MaxRawLevels)}
    /\ parse_pc = "call"
    /\ parse_out = <<>>

\* lines 53-60
ParseCall ==
    /\ parse_pc = "call"
    /\ parse_out' = parse_levels(side_levels).out
    /\ parse_pc' = IF parse_levels(side_levels).raises THEN "raised" ELSE "done"
    /\ UNCHANGED <<grid, fill_vars, side_levels, main_vars>>

NextParse == ParseCall

SpecParse == InitParse /\ [][NextParse]_vars

\* ---- C10

Coercible(r) == r.t \in {"num", "text"}

Denoted(r) == r.v

RECURSIVE C10_Expected(_)
C10_Expected(items) ==
    IF items = <<>> THEN <<>>
    ELSE LET x == items[1]
             rest == C10_Expected(SubSeq(items, 2, Len(items)))
         IN  IF x.kind = "map" /\ Coercible(x.price) /\ Coercible(x.size)
             THEN <<Level(Denoted(x.price), Denoted(x.size))>> \o rest
             ELSE rest

\* C10: parse_levels raises nothing and returns exactly the entries, in input
\* order, whose price and size are both present and coercible to a finite
\* number; an entry with a missing, null, non-numeric or non-finite price or
\* size is dropped; every Level of the output has a finite price and size.
C10_AsClaimed ==
    parse_pc # "call"
    => /\ parse_pc = "done"
       /\ parse_out = C10_Expected(side_levels.items)
       /\ \A i \in DOMAIN parse_out :
              IsFinite(parse_out[i].price) /\ IsFinite(parse_out[i].size)

----------------------------------------------------------------------------
(* The metrics of one order book (cent grid: prices in cents, sizes in     *)
(* shares; the score is in the program's own units, $ and shares).         *)

\* cents in one $: the unit the cent grid counts prices and cash in
CentsPerDollar == 100

TOP_LEVELS_PER_SIDE == 20
\* DEPTH_BAND = 0.01 $, in cents
DEPTH_BAND == 1
\* BUDGETS = [10, 50, 200] $, in cents
BUDGETS == <<10 * CentsPerDollar, 50 * CentsPerDollar, 200 * CentsPerDollar>>

Min(a, b) == IF a <= b THEN a ELSE b

\* sum(f(l) for l in xs)
RECURSIVE SumSizes(_)
SumSizes(xs) ==
    IF xs = <<>> THEN 0 ELSE xs[1].size + SumSizes(SubSeq(xs, 2, Len(xs)))

\* sorted(xs, key=lambda l: l.price, reverse=True): the list is reversed,
\* sorted ascending and reversed again
SortDesc(xs) == Reverse(ListSort(Reverse(xs)))

\* xs[:n]
Take(xs, n) == SubSeq(xs, 1, Min(n, Len(xs)))

Prices(xs) == [i \in DOMAIN xs |-> xs[i].price]

\* max(ps, default=None): the first item, replaced by each later item that is
\* greater than the one held
RECURSIVE MaxFrom(_, _, _)
MaxFrom(ps, i, held) ==
    IF i > Len(ps) THEN held
    ELSE MaxFrom(ps, i + 1, IF Lt(held, ps[i]) THEN ps[i] ELSE held)

MaxOrNone(ps) == IF ps = <<>> THEN None ELSE Num(MaxFrom(ps, 2, ps[1]))

\* min(ps, default=None): likewise with "less than"
RECURSIVE MinFrom(_, _, _)
MinFrom(ps, i, held) ==
    IF i > Len(ps) THEN held
    ELSE MinFrom(ps, i + 1, IF Lt(ps[i], held) THEN ps[i] ELSE held)

MinOrNone(ps) == IF ps = <<>> THEN None ELSE Num(MinFrom(ps, 2, ps[1]))

best_bid_ask(bs, as) ==
    [bb |-> MaxOrNone(Prices(bs)), ba |-> MinOrNone(Prices(as))]

\* faulty variant: no fallback to the one present side
midpoint_BothOrNothing(best_bid, best_ask) ==
    IF best_bid = None \/ best_ask = None THEN None
    ELSE RatDiv(RatAdd(best_bid, best_ask), Num(2))

midpoint(best_bid, best_ask) ==
    IF best_bid = None /\ best_ask = None THEN None
    ELSE IF best_bid = None THEN best_ask
    ELSE IF best_ask = None THEN best_bid
    ELSE RatDiv(RatAdd(best_bid, best_ask), Num(2))

\* line 178
Spread(bb, ba) == IF bb = None \/ ba = None THEN None ELSE RatSub(ba, bb)

\* faulty variant: the band is open: a level exactly on its edge is left out
calc_depth_OpenBand(bs, as, mid, band) ==
    IF mid = None THEN None
    ELSE LET lo == RatSub(mid, Num(band))
             hi == RatAdd(mid, Num(band))
             bid_depth == SumSizes(SelectSeq(bs, LAMBDA l : ~RatLE(Num(l.price), lo)))
             ask_depth == SumSizes(SelectSeq(as, LAMBDA l : ~RatLE(hi, Num(l.price))))
         IN  Num(bid_depth + ask_depth)

calc_depth(bs, as, mid, band) ==
    IF mid = None THEN None
    ELSE LET lo == RatSub(mid, Num(band))
             hi == RatAdd(mid, Num(band))
             bid_depth == SumSizes(SelectSeq(bs, LAMBDA l : RatLE(lo, Num(l.price))))
             ask_depth == SumSizes(SelectSeq(as, LAMBDA l : RatLE(Num(l.price), hi)))
         IN  Num(bid_depth + ask_depth)

\* faulty variant: the best ask is preferred to the midpoint
Baseline_AskFirst(mid, ba) == IF ba # None THEN ba ELSE mid

\* line 187
Baseline(mid, ba) == IF mid # None THEN mid ELSE ba

\* lines 188-190
Slippage(avg, baseline) ==
    IF avg = None \/ baseline = None THEN None ELSE RatSub(avg, baseline)

\* a price in cents as a price in $
Dollars(x) == RatDiv(x, Num(CentsPerDollar))

\* faulty variant: an absent slippage counts as zero
Score_AbsentAsZero(depth, spread, sl50) ==
    IF depth # None /\ spread # None
    THEN RatSub(RatSub(RatDiv(depth, Num(1000)),
                       RatMul(Dollars(spread), Num(3))),
                RatMul(Dollars(IF sl50 = None THEN Num(0) ELSE sl50), Num(4)))
    ELSE None

\* faulty variant: the spread is rewarded, not penalised
Score_SpreadRewarded(depth, spread, sl50) ==
    IF depth # None /\ spread # None /\ sl50 # None
    THEN RatSub(RatAdd(RatDiv(depth, Num(1000)),
                       RatMul(Dollars(spread), Num(3))),
                RatMul(Dollars(sl50), Num(4)))
    ELSE None

\* lines 194-196
Score(depth, spread, sl50) ==
    IF depth # None /\ spread # None /\ sl50 # None
    THEN RatSub(RatSub(RatDiv(depth, Num(1000)),
                       RatMul(Dollars(spread), Num(3))),
                RatMul(Dollars(sl50), Num(4)))
    ELSE None

\* lines 176-210: the gold row of one record
GoldRow(snap_ts, token_id, bs, as) ==
    LET bba == best_bid_ask(bs, as)
        bb == bba.bb
        ba == bba.ba
        mid == midpoint(bb, ba)
        spread == Spread(bb, ba)
        depth == calc_depth(bs, as, mid, DEPTH_BAND)
        avg10 == buy_avg_fill_price(as, BUDGETS[1])
        avg50 == buy_avg_fill_price(as, BUDGETS[2])
        avg200 == buy_avg_fill_price(as, BUDGETS[3])
        baseline == Baseline(mid, ba)
        sl10 == Slippage(avg10, baseline)
        sl50 == Slippage(avg50, baseline)
        sl200 == Slippage(avg200, baseline)
    IN  [snapshot_ts |-> snap_ts, token_id |-> token_id,
         best_bid |-> bb, best_ask |-> ba, mid |-> mid, spread |-> spread,
         depth_1pt |-> depth,
         slippage_buy_10 |-> sl10, slippage_buy_50 |-> sl50,
         slippage_buy_200 |-> sl200,
         score |-> Score(depth, spread, sl50)]

\* lines 168-174: the silver rows of one side
RECURSIVE LevelRows(_, _, _, _, _)
LevelRows(snap_ts, token_id, side, top, i) ==
    IF i > Len(top) THEN <<>>
    ELSE <<[snapshot_ts |-> snap_ts, token_id |-> token_id, side |-> side,
            level |-> i, price |-> top[i].price, size |-> top[i].size]>>
         \o LevelRows(snap_ts, token_id, side, top, i + 1)

----------------------------------------------------------------------------
(* main: the loop over the loaded records.                                 *)
(*                                                                         *)
(* A raw record is [kind, asset_id, token_id, timestamp, bids, asks]:      *)
(* kind "map" for a mapping, "other" for a value without .get (a number,   *)
(* a string, a list, None).  An identity or timestamp field that is        *)
(* missing, null or empty is "".  A side that is missing has kind          *)
(* "missing".                                                              *)

\* a or b, on strings
Or(a, b) == IF a # "" THEN a ELSE b

\* ob.get(side, [])
GetSide(side) ==
    IF side.kind = "missing" THEN [kind |-> "list", items |-> <<>>] ELSE side

\* lines 160-210, one pass of the for loop over the next record; an exception
\* of the pass is caught nowhere and leaves main
ProcessRecord ==
    /\ pc = "loop"
    /\ ob_i < Len(orderbooks)
    /\ ob_i' = ob_i + 1
    /\ LET ob == orderbooks[ob_i + 1] IN
       IF ob.kind # "map"
       THEN /\ pc' = "aborted"
            /\ UNCHANGED <<bids, asks, gold_rows, silver_rows>>
       ELSE LET token_id == Or(ob.asset_id, Or(ob.token_id, ""))
                snap_ts == Or(ob.timestamp, "")
                pb == parse_levels(GetSide(ob.bids))
                pa == parse_levels(GetSide(ob.asks))
                bids_sorted == Take(SortDesc(pb.out), TOP_LEVELS_PER_SIDE)
                asks_top == Take(SortAsc(pa.out), TOP_LEVELS_PER_SIDE)
            IN  IF pb.raises
                THEN /\ pc' = "aborted"
                     /\ UNCHANGED <<bids, asks, gold_rows, silver_rows>>
                ELSE IF pa.raises
                THEN /\ pc' = "aborted"
                     /\ bids' = pb.out
                     /\ UNCHANGED <<asks, gold_rows, silver_rows>>
                ELSE /\ pc' = "loop"
                     /\ bids' = pb.out
                     /\ asks' = pa.out
                     /\ silver_rows' = silver_rows
                            \o LevelRows(snap_ts, token_id, "bid", bids_sorted, 1)
                            \o LevelRows(snap_ts, token_id, "ask", asks_top, 1)
                     /\ gold_rows' = Append(gold_rows,
                                            GoldRow(snap_ts, token_id, pb.out, pa.out))
    /\ UNCHANGED <<grid, fill_vars, parse_vars, orderbooks>>

\* the loop ends; lines 213-238 write gold_rows out as they are
EndLoop ==
    /\ pc = "loop"
    /\ ob_i = Len(orderbooks)
    /\ pc' = "done"
    /\ UNCHANGED <<grid, fill_vars, parse_vars, orderbooks, ob_i, bids, asks,
                   gold_rows, silver_rows>>

Next == ProcessRecord \/ EndLoop

InitMain ==
    /\ IdleFill
    /\ IdleParse
    /\ grid = "cent"
    /\ ob_i = 0
    /\ pc = "loop"
    /\ bids = <<>>
    /\ asks = <<>>
    /\ gold_rows = <<>>
    /\ silver_rows = <<>>

\* ---- the records of a batch

\* the text of a float: "nan" for NaN, the decimal text otherwise
RawText(f) == IF f = NaN THEN RawValue("nan", 0) ELSE RawValue("text", f)
RawLevel(p, z) ==
    [kind |-> "map", price |-> RawText(p), size |-> RawText(z)]
RawList(ls) ==
    [kind |-> "list", items |-> [i \in DOMAIN ls |-> RawLevel(ls[i].price, ls[i].size)]]
RawRecord(asset, token, ts, bs, as) ==
    [kind |-> "map", asset_id |-> asset, token_id |-> token, timestamp |-> ts,
     bids |-> bs, asks |-> as]

\* the sides of a well-formed record: bids at 1..3 cents, asks at 0..3 cents
BidLevels == {Level(p, 400) : p \in 1 .. 3}
AskLevels == {Level(p, z) : p \in 0 .. 3, z \in {400, 7000}}
RichRecords ==
    {RawRecord("A", "", "t", RawList(bs), RawList(as)) :
        bs \in SeqsUpTo(BidLevels, MaxLevels), as \in SeqsUpTo(AskLevels, MaxLevels)}

\* main on a batch of one well-formed record
InitRecord ==
    /\ InitMain
    /\ orderbooks \in {<<r>> : r \in RichRecords}

SpecRecord == InitRecord /\ [][Next]_vars

\* the sides of a record whose price texts may be "nan": prices of 1 and 2
\* cents and NaN
BookLevels == {Level(p, 400) : p \in {1, 2, NaN}}
BookRecords ==
    {RawRecord("A", "", "t", RawList(bs), RawList(as)) :
        bs \in SeqsUpTo(BookLevels, MaxBookLevels),
        as \in SeqsUpTo(BookLevels, MaxBookLevels)}

\* main on a batch of one such record
InitBook ==
    /\ InitMain
    /\ orderbooks \in {<<r>> : r \in BookRecords}

SpecBook == InitBook /\ [][Next]_vars

\* the records of a mixed batch: small books, the ways a record names itself,
\* and the malformed records
NoSide == [kind |-> "missing", items |-> <<>>]
BadEntry == [kind |-> "other", price |-> RawValue("missing", 0),
             size |-> RawValue("missing", 0)]
SmallBooks ==
    {RawRecord("A", "", "t", RawList(bs), RawList(as)) :
        bs \in SeqsUpTo({Level(1, 400)}, 1),
        as \in SeqsUpTo({Level(1, 400), Level(3, 400)}, MaxLevels)}
OddRecords ==
    {RawRecord("", "T", "t", RawList(<<Level(1, 400)>>), RawList(<<Level(3, 400)>>)),
     RawRecord("", "", "", RawList(<<Level(1, 400)>>), RawList(<<Level(3, 400)>>)),
     RawRecord("A", "T", "t", [kind |-> "null", items |-> <<>>], NoSide),
     RawRecord("A", "", "t", [kind |-> "list", items |-> <<BadEntry>>],
               [kind |-> "list",
                items |-> <<[kind |-> "map", price |-> RawValue("word", 0),
                             size |-> RawValue("num", 400)],
                            RawLevel(3, 400)>>]),
     RawRecord("A", "", "t", [kind |-> "number", items |-> <<>>],
               RawList(<<Level(3, 400)>>)),
     RawRecord("A", "", "t", RawList(<<Level(1, 400)>>),
               [kind |-> "number", items |-> <<>>]),
     [kind |-> "other", asset_id |-> "", token_id |-> "", timestamp |-> "",
      bids |-> NoSide, asks |-> NoSide]}
BatchRecords == SmallBooks \cup OddRecords

\* main on a batch of up to MaxBatch records
Init ==
    /\ InitMain
    /\ orderbooks \in SeqsUpTo(BatchRecords, MaxBatch)

Spec == Init /\ [][Next]_vars

----------------------------------------------------------------------------
(* Claims about buy_avg_fill_price, under SpecFill.                        *)

Count(xs, x) == Cardinality({i \in DOMAIN xs : xs[i] = x})

IsAscending(xs) ==
    \A i \in DOMAIN xs : \A j \in DOMAIN xs :
        i < j => xs[i].price <= xs[j].price

SizesNonNegative(xs) == \A i \in DOMAIN xs : xs[i].size >= 0

\* the walk as the unamended C1 words it: over the positive-price levels, a
\* level that fits is consumed whole, the first that does not fit is filled
\* partially and ends the walk; nothing else ends it
RECURSIVE C1_ClaimedWalk(_, _, _)
C1_ClaimedWalk(sorted, i, w) ==
    IF i > Len(sorted) \/ w.stop THEN w
    ELSE LET lvl == sorted[i]
             cost == lvl.price * lvl.size
         IN  IF lvl.price <= 0 THEN C1_ClaimedWalk(sorted, i + 1, w)
             ELSE IF cost <= w.remaining
             THEN C1_ClaimedWalk(sorted, i + 1,
                      [remaining |-> w.remaining - cost,
                       total_cost |-> w.total_cost + cost,
                       total_shares |-> RatAdd(w.total_shares, Num(lvl.size)),
                       stop |-> FALSE])
             ELSE [remaining |-> 0,
                   total_cost |-> w.total_cost + w.remaining,
                   total_shares |-> RatAdd(w.total_shares,
                                           Rat(w.remaining, lvl.price)),
                   stop |-> TRUE]

\* C1 as claimed: for every ask side and budget B > 0 the returned value is
\* spent / filled of the walk in which every positive-price level, in
\* ascending price order, is consumed whole when its cost is at most the
\* remaining budget, and the first level whose cost exceeds the remaining
\* budget is filled with remaining / price shares and ends the walk.
\* (Stated here for ask sides without negative sizes only, and for calls
\* that return a number; the claim fails already there.)
C1_AsClaimed ==
    (fill_pc = "done" /\ fill_budget > 0 /\ fill_ret # None
        /\ SizesNonNegative(fill_asks))
    => LET w == C1_ClaimedWalk(asks_sorted, 1,
                    [remaining |-> fill_budget, total_cost |-> 0,
                     total_shares |-> Num(0), stop |-> FALSE])
       IN  /\ w.total_shares # Num(0)
           /\ fill_ret = RatDiv(Num(w.total_cost), w.total_shares)

C1_Step ==
    /\ (fill_pc = "call" /\ fill_pc' = "loop")
         => /\ IsAscending(asks_sorted')
            /\ \A l \in FillLevels :
                   Count(asks_sorted', l) = Count(fill_asks, l)
            /\ remaining' = fill_budget
            /\ total_cost' = 0
            /\ total_shares' = Num(0)
    /\ fill_pc = "loop"
         => LET lvl == asks_sorted[fill_k]
                cost == lvl.price * lvl.size
            IN  /\ (lvl.price > 0 /\ cost <= remaining)
                     => /\ total_shares' = RatAdd(total_shares, Num(lvl.size))
                        /\ total_cost' = total_cost + cost
                        /\ remaining' = remaining - cost
                        /\ fill_pc' = "ret"
                             <=> \/ remaining' <= EPS_REMAINING
                                 \/ fill_k = Len(asks_sorted)
                /\ (lvl.price > 0 /\ cost > remaining)
                     => /\ total_shares'
                             = RatAdd(total_shares, Rat(remaining, lvl.price))
                        /\ total_cost' = total_cost + remaining
                        /\ remaining' = 0
                        /\ fill_pc' = "ret"
                /\ fill_pc' = "loop" => fill_k' = fill_k + 1
                /\ fill_pc' = "ret" => fill_k' = fill_k
    /\ (fill_pc = "ret" /\ fill_pc' = "done")
         => fill_ret' = IF RatLE(total_shares, Num(EPS_SHARES)) THEN None
                        ELSE RatDiv(Num(total_cost), total_shares)

\* C1 (amended): for every ask side and budget B > 0 the levels are walked
\* in ascending price order; a positive-price level whose cost price*size is
\* at most the remaining budget is consumed whole (size added to filled
\* shares, cost added to spent and taken off the remaining budget), and the
\* walk ends there when the remaining budget is then at most 1e-9; the first
\* level whose cost exceeds the remaining budget is filled with
\* remaining / price shares, all remaining budget is added to spent, and no
\* later level is examined; the returned value is spent / filled when the
\* filled shares exceed 1e-12, and absent otherwise.
C1_Walk == [][C1_Step]_vars

\* a call that consumed its cheapest level whole, with budget left above the
\* threshold, filled the next level partially, and returned a number
C1_Witness ==
    /\ fill_pc = "done"
    /\ fill_ret # None
    /\ Len(asks_sorted) = 2
    /\ fill_k = 2
    /\ asks_sorted[1].price > 0
    /\ asks_sorted[1].size > 0
    /\ asks_sorted[1].price * asks_sorted[1].size < fill_budget
    /\ asks_sorted[2].price * asks_sorted[2].size
          > fill_budget - asks_sorted[1].price * asks_sorted[1].size
    /\ total_cost = fill_budget
    /\ remaining = 0

\* C3: a level with price <= 0 adds nothing to the filled shares, nothing to
\* the spent cost and leaves the remaining budget as it is, and the returned
\* value is the one returned for the same ask side with every level of
\* price <= 0 removed.
C3_NonPositiveIgnored ==
    [][/\ (fill_pc = "loop" /\ asks_sorted[fill_k].price <= 0)
            => UNCHANGED <<remaining, total_cost, total_shares>>
       /\ fill_pc' = "done"
            => fill_ret' = buy_avg_fill_price(
                               SelectSeq(fill_asks, LAMBDA l : l.price > 0),
                               fill_budget)]_vars

\* a call on a side holding a level of price <= 0 and size > 0 beside a
\* positive-price level, which returned a number
C3_Witness ==
    /\ fill_pc = "done"
    /\ fill_ret # None
    /\ \E i \in DOMAIN fill_asks :
           fill_asks[i].price <= 0 /\ fill_asks[i].size > 0
    /\ \E i \in DOMAIN fill_asks : fill_asks[i].price > 0

\* C4 as claimed: the call returns absent exactly when the budget is zero or
\* negative, the ask side is empty, or the walk ends with zero filled
\* shares, and a number in every other case.
\* (Stated here for ask sides without negative sizes only; the claim fails
\* already there.)
C4_AsClaimed ==
    (fill_pc = "done" /\ SizesNonNegative(fill_asks))
    => (fill_ret = None
          <=> \/ fill_budget <= 0
              \/ fill_asks = <<>>
              \/ total_shares = Num(0))

\* C4 (amended): the call returns absent, and never raises, exactly when the
\* budget is zero or negative, the ask side is empty, or the walk ends with
\* filled shares of at most 1e-12 (zero filled shares included); in every
\* other case it returns a number.  No division has a zero divisor.
C4_AbsentOrNumber ==
    /\ fill_pc = "done"
         => /\ fill_ret = None
                 <=> \/ fill_budget <= 0
                     \/ fill_asks = <<>>
                     \/ RatLE(total_shares, Num(EPS_SHARES))
            /\ fill_ret # None => (Len(fill_ret) = 2 /\ fill_ret[2] > 0)
    /\ fill_pc = "ret" /\ ~RatLE(total_shares, Num(EPS_SHARES))
         => total_shares[1] # 0
    /\ fill_pc = "loop" /\ ~Skipped(asks_sorted[fill_k])
         => asks_sorted[fill_k].price # 0

\* a call with a positive budget on a side with positive-price levels that
\* filled a positive number of shares and still returned absent
C4_Witness ==
    /\ fill_pc = "done"
    /\ fill_ret = None
    /\ fill_budget > 0
    /\ total_shares[1] > 0

----------------------------------------------------------------------------
(* Claims about main's loop, under Spec (mixed batches).                   *)

Derived(r) ==
    <<r.best_bid, r.best_ask, r.mid, r.spread, r.depth_1pt, r.slippage_buy_10,
      r.slippage_buy_50, r.slippage_buy_200, r.score>>

AllAbsent(r) == \A i \in DOMAIN Derived(r) : Derived(r)[i] = None

\* a record the metrics cannot be computed from: no mapping, or a side that
\* cannot be iterated
Unusable(ob) ==
    \/ ob.kind # "map"
    \/ ob.bids.kind = "number"
    \/ ob.asks.kind = "number"

\* C2: the loop over the records never aborts on a malformed record; it runs
\* to the end and emits exactly one metrics record per input record, the
\* record made for a malformed input having all its derived fields absent.
C2_AsClaimed ==
    /\ pc # "aborted"
    /\ Len(gold_rows) = ob_i
    /\ pc = "done" => Len(gold_rows) = Len(orderbooks)
    /\ \A i \in DOMAIN gold_rows :
           Unusable(orderbooks[i]) => AllAbsent(gold_rows[i])

RatLT(x, y) == x[1] * y[2] < y[1] * x[2]

\* C9: of two records of a batch whose scores are present and which agree in
\* the other inputs of the score (depth and reference slippage), the one with
\* the smaller spread has the strictly higher score.
C9_SmallerSpreadScoresHigher ==
    \A i \in DOMAIN gold_rows : \A j \in DOMAIN gold_rows :
        LET a == gold_rows[i]
            b == gold_rows[j]
        IN  (/\ a.score # None
             /\ b.score # None
             /\ a.depth_1pt = b.depth_1pt
             /\ a.slippage_buy_50 = b.slippage_buy_50
             /\ RatLT(a.spread, b.spread))
            => RatLT(b.score, a.score)

\* a finished batch of two books with equal depth and equal reference
\* slippage, present scores and different spreads
C9_Witness ==
    /\ pc = "done"
    /\ Len(gold_rows) = 2
    /\ gold_rows[1].score # None
    /\ gold_rows[2].score # None
    /\ gold_rows[1].depth_1pt = gold_rows[2].depth_1pt
    /\ gold_rows[1].slippage_buy_50 = gold_rows[2].slippage_buy_50
    /\ RatLT(gold_rows[1].spread, gold_rows[2].spread)

----------------------------------------------------------------------------
(* Claims about the metrics of one record, under SpecRecord.               *)

Emitted == pc = "done" /\ Len(gold_rows) = 1

Row == gold_rows[1]

\* C5: the midpoint is absent when best bid and best ask are both absent, is
\* the present one when exactly one is present, and is their arithmetic mean
\* when both are; the spread is present exactly when both are present and is
\* then best_ask - best_bid, negative for a crossed book.
C5_MidpointAndSpread ==
    Emitted =>
        LET bb == Row.best_bid
            ba == Row.best_ask
        IN  /\ (bb = None /\ ba = None) => Row.mid = None
            /\ (bb = None /\ ba # None) => Row.mid = ba
            /\ (bb # None /\ ba = None) => Row.mid = bb
            /\ (bb # None /\ ba # None)
                 => /\ Row.mid # None
                    /\ 2 * Row.mid[1] * bb[2] * ba[2]
                         = Row.mid[2] * (bb[1] * ba[2] + ba[1] * bb[2])
            /\ Row.spread # None <=> (bb # None /\ ba # None)
            /\ Row.spread # None
                 => /\ Row.spread[1] * bb[2] * ba[2]
                         = Row.spread[2] * (ba[1] * bb[2] - bb[1] * ba[2])
                    /\ RatLT(ba, bb) => Row.spread[1] < 0

\* a crossed book: best ask below best bid, a negative spread, and a
\* midpoint strictly between the two
C5_Witness ==
    /\ Emitted
    /\ Row.best_bid # None
    /\ Row.best_ask # None
    /\ RatLT(Row.best_ask, Row.best_bid)
    /\ Row.spread[1] < 0
    /\ RatLT(Row.best_ask, Row.mid)
    /\ RatLT(Row.mid, Row.best_bid)

\* the sizes of the levels of xs at the indices in I, added up
RECURSIVE SizeOver(_, _)
SizeOver(xs, I) ==
    IF I = {} THEN 0
    ELSE LET i == CHOOSE i \in I : TRUE
         IN  xs[i].size + SizeOver(xs, I \ {i})

\* C6: the depth is absent when the midpoint is absent, and otherwise the
\* sizes of all bid levels with price >= mid - band plus the sizes of all
\* ask levels with price <= mid + band, every level counted, duplicates of a
\* price included; for an empty bid side and a non-empty ask side best_bid is
\* absent, the midpoint is best_ask, the spread is absent and the depth is
\* the ask-side sum alone.
C6_Depth ==
    Emitted =>
        /\ Row.mid = None <=> Row.depth_1pt = None
        /\ Row.mid # None
             => LET n == Row.mid[1]
                    d == Row.mid[2]
                    inB == {i \in DOMAIN bids :
                               bids[i].price * d >= n - DEPTH_BAND * d}
                    inA == {i \in DOMAIN asks :
                               asks[i].price * d <= n + DEPTH_BAND * d}
                IN  Row.depth_1pt = Num(SizeOver(bids, inB) + SizeOver(asks, inA))
        /\ (bids = <<>> /\ asks # <<>>)
             => /\ Row.best_bid = None
                /\ Row.mid = Row.best_ask
                /\ Row.mid # None
                /\ Row.spread = None
                /\ Row.depth_1pt
                     = Num(SizeOver(asks, {i \in DOMAIN asks :
                               asks[i].price * Row.mid[2]
                                   <= Row.mid[1] + DEPTH_BAND * Row.mid[2]}))

\* an empty bid side and two ask levels at the same price, both counted
C6_Witness ==
    /\ Emitted
    /\ bids = <<>>
    /\ Len(asks) = 2
    /\ asks[1].price = asks[2].price
    /\ Row.depth_1pt = Num(asks[1].size + asks[2].size)
    /\ Row.depth_1pt[1] > 0

SlippageOf(r, k) ==
    CASE k = 1 -> r.slippage_buy_10
      [] k = 2 -> r.slippage_buy_50
      [] k = 3 -> r.slippage_buy_200

\* C7: for each configured budget the slippage of the record is
\* fillPrice - baseline, the baseline being the midpoint if present and else
\* the best ask if present; the slippage is absent exactly when the fill
\* price of that budget is absent or there is no baseline; an absent input is
\* never taken for zero.
C7_Slippage ==
    Emitted =>
        \A k \in DOMAIN BUDGETS :
            LET fill == buy_avg_fill_price(asks, BUDGETS[k])
                base == IF Row.mid # None THEN Row.mid ELSE Row.best_ask
                sl == SlippageOf(Row, k)
            IN  /\ sl = None <=> (fill = None \/ base = None)
                /\ sl # None
                     => sl[1] * fill[2] * base[2]
                          = sl[2] * (fill[1] * base[2] - base[1] * fill[2])

\* a two-sided book whose three budgets fill at three different average
\* prices, the slippages differing accordingly
C7_Witness ==
    /\ Emitted
    /\ Row.best_bid # None
    /\ Row.best_bid # Row.best_ask
    /\ Row.slippage_buy_10 # None
    /\ Row.slippage_buy_50 # None
    /\ Row.slippage_buy_200 # None
    /\ Row.slippage_buy_10 # Row.slippage_buy_50
    /\ Row.slippage_buy_50 # Row.slippage_buy_200

\* C8: the score is present exactly when the depth, the spread and the
\* slippage at the reference budget (50) are all present, and is then
\* depth/1000 - 3*spread - 4*slippage_50 (prices in $); it is absent for
\* every one-sided and every empty book.
C8_Score ==
    Emitted =>
        /\ Row.score # None
             <=> /\ Row.depth_1pt # None
                 /\ Row.spread # None
                 /\ Row.slippage_buy_50 # None
        /\ Row.score # None
             => RatAdd(Row.score,
                       RatAdd(Rat(3 * Row.spread[1], CentsPerDollar * Row.spread[2]),
                              Rat(4 * Row.slippage_buy_50[1],
                                  CentsPerDollar * Row.slippage_buy_50[2])))
                  = Rat(Row.depth_1pt[1], 1000 * Row.depth_1pt[2])
        /\ (bids = <<>> \/ asks = <<>>) => Row.score = None

\* a two-sided book with a present score whose three inputs are all non-zero
C8_Witness ==
    /\ Emitted
    /\ Row.score # None
    /\ Row.depth_1pt[1] > 0
    /\ Row.spread[1] # 0
    /\ Row.slippage_buy_50[1] # 0
    /\ Row.slippage_buy_50 # Row.slippage_buy_10

----------------------------------------------------------------------------
(* Claim about the exported level rows, under SpecBook.                    *)

\* the rows of the silver file for one side, in file order
SideRows(side) == SelectSeq(silver_rows, LAMBDA r : r.side = side)

\* a bid price a is better than b when it is higher, an ask price when lower
BetterBid(a, b) == Lt(b, a)
BetterAsk(a, b) == Lt(a, b)

\* what C11 says of one side: rows are the exported rows, parsed the parsed
\* levels, best the best price in the metrics record
C11_Side(rows, parsed, Better(_, _), best) ==
    /\ Len(rows) = Min(TOP_LEVELS_PER_SIDE, Len(parsed))
    /\ \A i \in DOMAIN rows : rows[i].level = i
    /\ \A i, j \in DOMAIN rows :
           i < j => ~Better(rows[j].price, rows[i].price)
    /\ rows # <<>> =>
           /\ \A k \in DOMAIN parsed : ~Better(parsed[k].price, rows[1].price)
           /\ Num(rows[1].price) = best

\* C11: for each side of every order book the exported level rows number
\* min(N, number of parsed levels), N = 20, carry the ranks 1, 2, ... without
\* gaps and are ordered by price favourability (no row has a better price
\* than a row of a lower rank); the rank-1 row of a non-empty side has the
\* best price of that side, equal to best_bid or best_ask of the metrics
\* record of the same book.
C11_AsClaimed ==
    Emitted =>
        /\ C11_Side(SideRows("bid"), bids, BetterBid, Row.best_bid)
        /\ C11_Side(SideRows("ask"), asks, BetterAsk, Row.best_ask)

\* the same for the books all of whose parsed prices are numbers
C11_FinitePrices ==
    (Emitted /\ \A i \in DOMAIN bids : bids[i].price # NaN)
        /\ (\A i \in DOMAIN asks : asks[i].price # NaN)
    => C11_AsClaimed

====
